---- MODULE Spec2Model ----
(***************************************************************************)
(* Model of the backup orchestrator of aectronix/bimcloud-backup           *)
(* (src/main.py): BackupManager.backup and the helpers it calls, the       *)
(* polling driver run_with_timeout, the transfer to the destination        *)
(* storage and the __main__ block that derives the run status.             *)
(*                                                                         *)
(* The three services (BIMcloud, Google Drive, Notion) are the             *)
(* environment: every client call either returns what the server holds or  *)
(* raises; the server state (backups, schedules, the job, the destination  *)
(* files) is part of the model.  The clock `now` counts whole seconds;     *)
(* server timestamps are milliseconds.                                     *)
(***************************************************************************)
EXTENDS Integers, Sequences, FiniteSets, TLC

(***************************************************************************)
(* Bounds of the model: the defaults of get_timeout_from_filesize scaled   *)
(* down so that a poll lasts a few iterations, the chunks of an upload,    *)
(* and the pageSize of the folder listing (drive.py:60) scaled down.       *)
(***************************************************************************)
BaseSeconds == 2
ScaleFactor == 1
SizeDivisor == 2
MaxChunks == 2
MaxSize == 6
MaxDeadline == 3
MaxDelay == 2
PageSize == 1

(* Program constants. *)
MsPerSec == 1000
PollDelay == 1
UploadDelay == 0
InterResourceDelay == 1

StatusDone == "_server.backup.status.done"
StatusRunning == "_server.backup.status.running"
FormatAuto == "_server.backup.format.bimlibrary-automatic"
FormatProject == "_server.backup.format.bimproject"

ResourceTypes == {"project", "library"}
ModifiedTimes == {100, 200}

(***************************************************************************)
(* Pure helpers                                                            *)
(***************************************************************************)
RECURSIVE Pow(_, _)
Pow(a, n) == IF n = 0 THEN 1 ELSE a * Pow(a, n - 1)

(* Python round(x, 0) of the non-negative quotient n/d: half to even. *)
RoundHalfEven(n, d) ==
  LET q == n \div d
      r == n % d
  IN  IF 2 * r < d THEN q
      ELSE IF 2 * r > d THEN q + 1
      ELSE IF q % 2 = 0 THEN q ELSE q + 1

get_timeout_from_filesize_Wrapping(size, b, f, e, div) ==
  b + ((f * size) % (Pow(div, e) + 1))

(* main.py:108  b + round(f * (size/div ** e), 0): ** binds tighter than /. *)
get_timeout_from_filesize(size, b, f, e, div) ==
  b + RoundHalfEven(f * size, Pow(div, e))

(* main.py:152: the default exponent (1.40) is the larger one. *)
BackupTimeout(size) ==
  get_timeout_from_filesize(size, BaseSeconds, ScaleFactor, 2, SizeDivisor)

(* main.py:441: e=1.30, the smaller exponent, for the transfer. *)
TransferTimeout(size) ==
  get_timeout_from_filesize(size, BaseSeconds, ScaleFactor, 1, SizeDivisor)

(* The server's answer to 'sort-by': '$time', 'sort-direction': 'desc'. *)
RECURSIVE SortDesc(_)
SortDesc(S) ==
  IF S = {} THEN <<>>
  ELSE LET top == CHOOSE b \in S : \A c \in S : c.time <= b.time
       IN  <<top>> \o SortDesc(S \ {top})

has_outdated_backup_Strict(bs, resource) ==
  ~(  (bs # <<>> /\ bs[1].time > resource.modified)
   \/ (bs = <<>> /\ resource.modified = resource.uploaded))

has_outdated_backup_NeverFirst(bs, resource) ==
  ~(  (bs # <<>> /\ bs[1].time >= resource.modified)
   \/ bs = <<>>)

has_outdated_backup_Always(bs, resource) == TRUE

(* main.py:160-162 *)
has_outdated_backup(bs, resource) ==
  ~(  (bs # <<>> /\ bs[1].time >= resource.modified)
   \/ (bs = <<>> /\ resource.modified = resource.uploaded))

backup_is_ready_StatusOnly(b) == b.status = StatusDone

(* main.py:273 and main.py:359: the property test of both validations. *)
backup_is_ready(b) == b.status = StatusDone /\ b.size > 0

(* main.py:125: the loop condition of run_with_timeout. *)
within_deadline_Inclusive(runtime, tmo) == runtime <= tmo

within_deadline(runtime, tmo) == runtime < tmo

sleeps_after_Always(ret) == TRUE

(* run_with_timeout, main.py:127-129: a non-empty result is returned at    *)
(* once, the delay is slept only after an empty one.                       *)
sleeps_after(ret) == ret = <<>>

(* main.py:490 *)
run_status(errors) == IF errors = 0 THEN "Done" ELSE "Error"

(* main.py:448: resource name + '.bim' + type + version. *)
file_name(resource) == <<resource.name, ".bim", resource.type>>

(* get_folder_resources, drive.py:58-63: one page of the folder, of at     *)
(* most pageSize files in the order the service chooses; the               *)
(* nextPageToken is never followed.                                        *)
files_list(folder) ==
  {page \in SUBSET folder :
     Cardinality(page) = IF Cardinality(folder) < PageSize
                         THEN Cardinality(folder) ELSE PageSize}

(* prepare_upload, drive.py:98-103, once the upload completes: an update   *)
(* rewrites the file object it names, a create adds one to the folder.     *)
stored_files(folder, req, rid) ==
  IF req.fileId = <<>>
  THEN folder \cup {[id |-> <<"up", rid>>, name |-> req.name]}
  ELSE folder

transfer_proceeds_Unchecked(outcome) == outcome \in {"data", "not_ok"}

(* transfer_backup, main.py:443: only downloaded data goes on to upload. *)
transfer_proceeds(outcome) == outcome = "data"

(***************************************************************************)
(* State                                                                   *)
(***************************************************************************)
VARIABLES
  resources,        \* the listing returned by get_resources
  srvBackups,       \* backup records held by the BIMcloud server
  srvSchedules,     \* backup schedules held by the server
  srvJob,           \* <<>> or <<job>>: the job of the running project backup
  driveFiles,       \* files of the destination folder
  now,              \* time.time(), seconds
  pc,               \* position of the orchestrator
  i,                \* index of the resource being processed
  timeout,          \* main.py:152
  backups,          \* main.py:159
  start_time,       \* main.py:166
  result,           \* <<>> (None) or <<value>>
  backup_new,       \* <<>> (None/False) or <<backup>>
  backups_created,  \* main.py:147
  pollFn,           \* the probe run_with_timeout is driving
  pollTimeout,      \* its timeout argument
  pollStart,        \* main.py:124
  request,          \* the prepared upload request
  report,           \* BackupManager.report
  errors,           \* the variable errors of __main__
  status,           \* the variable status of __main__
  payload,          \* <<>> or <<report_payload>>
  ops,              \* history: what was done for resource i (a set of tags)
  errsOf,           \* history: report errors added while at resource i
  seen,             \* history: the backups listed at main.py:159 for resource i
  handed,           \* history: the backup handed to transfer_backup for resource i
  pollStat,         \* history: probes and sleeps of the current run_with_timeout
  calls,            \* history: the requests sent for resource i
  args              \* <<>>, or the arguments of the function run on its own

server == <<srvBackups, srvSchedules, srvJob, driveFiles>>
locals == <<timeout, backups, start_time, result, backup_new, backups_created,
            pollFn, pollTimeout, pollStart, request>>
mainv  == <<errors, status, payload>>
hist   == <<ops, errsOf, seen, handed, pollStat, calls>>
inputs == <<resources, args>>
vars   == <<inputs, server, now, pc, i, locals, report, mainv, hist>>

cur == resources[i]

Mark(tags) == ops' = [ops EXCEPT ![i] = @ \cup tags]
Did(k, tag) == tag \in ops[k]

(* No poll entered yet, and no request sent yet for a resource. *)
NoPoll == [probes |-> 0, sleeps |-> 0, last |-> <<>>]
NoCalls == [deleted |-> {}, creates |-> 0, inserts |-> 0, downloads |-> 0,
            chunks |-> 0]

(* One more request of the given kind is sent for the current resource. *)
Sent(kind) == calls' = [calls EXCEPT ![i][kind] = @ + 1]

(***************************************************************************)
(* Initial states: a listing of zero to two resources, the backups and     *)
(* schedules the server already holds for them, and the destination        *)
(* folder, holding the file of the first resource, alone or among a page   *)
(* of other files.                                                         *)
(***************************************************************************)
ResourceSize == [r1 |-> 4, r2 |-> 0]

Resource(id, t, m) ==
  [id |-> id, name |-> id, type |-> t, size |-> ResourceSize[id],
   modified |-> m, uploaded |-> 100]

FormatOf(type) == IF type = "project" THEN FormatProject ELSE FormatAuto

OldBackup(res, t) ==
  [id |-> <<res.id, t>>, rid |-> res.id, time |-> t,
   status |-> StatusDone, size |-> 1, format |-> FormatOf(res.type),
   locked |-> FALSE]

OldSchedule(res) == [target |-> res.id, origin |-> "pre"]

(* A resource never modified since its upload has no backups yet or one    *)
(* taken since; a modified one has any of five backup histories.           *)
BackupOptions(res) ==
  LET M == res.modified
  IN  IF M = res.uploaded
      THEN { {}, {OldBackup(res, M)} }
      ELSE { {}, {OldBackup(res, M - 1)},
             {OldBackup(res, M - 2), OldBackup(res, M - 1)},
             {OldBackup(res, M)},
             {OldBackup(res, M - 1), OldBackup(res, M + 1)} }

(* What the server holds for one listed resource. *)
Holdings(id) ==
  { [res |-> Resource(id, t, m), backups |-> bs, schedules |-> ss] :
      t \in ResourceTypes, m \in ModifiedTimes,
      bs \in UNION {BackupOptions(Resource(id, u, n)) :
                      u \in ResourceTypes, n \in ModifiedTimes},
      ss \in SUBSET {OldSchedule(Resource(id, u, n)) :
                      u \in ResourceTypes, n \in ModifiedTimes} }

FirstHoldings ==
  { h \in Holdings("r1") :
      /\ h.backups \in BackupOptions(h.res)
      /\ h.schedules \subseteq {OldSchedule(h.res)} }

(* The second listed resource is one in need of a backup. *)
SecondHoldings ==
  { h \in Holdings("r2") :
      /\ h.res.modified # h.res.uploaded
      /\ h.backups = (IF h.res.type = "project" THEN {OldBackup(h.res, h.res.modified - 1)}
                      ELSE {})
      /\ h.schedules = {} }

(* Files of the destination folder that belong to no listed resource: a    *)
(* full page of them.                                                      *)
OtherFiles ==
  {[id |-> <<"other", ToString(n)>>, name |-> <<ToString(n), ".bim", "other">>] :
     n \in 1..PageSize}

(* A project whose backups the server refuses to delete. *)
LockedHoldings ==
  { [h EXCEPT !.backups = {[b EXCEPT !.locked = TRUE] : b \in @}] :
      h \in {g \in FirstHoldings : g.res.type = "project" /\ g.backups # {}} }

Worlds ==
  {<<>>} \cup {<<h>> : h \in FirstHoldings \cup LockedHoldings}
         \cup {<<h1, h2>> : h1 \in FirstHoldings, h2 \in SecondHoldings}

(* The destination folder: the file of the first resource, alone or among  *)
(* a page of other files.                                                  *)
Folders(w) ==
  { crowd \cup {[id |-> <<"f0">>, name |-> file_name(w[k].res)] :
                  k \in {j \in 1..Len(w) : j = 1}} :
      crowd \in IF Len(w) = 1 THEN {{}, OtherFiles} ELSE {{}} }

Init ==
  /\ \E w \in Worlds :
       /\ resources = [k \in 1..Len(w) |-> w[k].res]
       /\ srvBackups = UNION {w[k].backups : k \in 1..Len(w)}
       /\ srvSchedules = UNION {w[k].schedules : k \in 1..Len(w)}
       /\ driveFiles \in Folders(w)
  /\ srvJob = <<>>
  /\ now = 1
  /\ pc = "get_resources"
  /\ i = 0
  /\ timeout = 0
  /\ backups = <<>>
  /\ start_time = 0
  /\ result = <<>>
  /\ backup_new = <<>>
  /\ backups_created = 0
  /\ pollFn = "none"
  /\ pollTimeout = 0
  /\ pollStart = 0
  /\ request = <<>>
  /\ report = [backups |-> 0, endtime |-> 0, errors |-> 0]
  /\ errors = 0
  /\ status = "unset"
  /\ payload = <<>>
  /\ ops = [k \in 0..Len(resources) |-> {}]
  /\ errsOf = [k \in 0..Len(resources) |-> 0]
  /\ seen = [k \in 0..Len(resources) |-> {}]
  /\ handed = [k \in 0..Len(resources) |-> <<>>]
  /\ pollStat = NoPoll
  /\ calls = [k \in 0..Len(resources) |-> NoCalls]
  /\ args = <<>>

(***************************************************************************)
(* Bookkeeping shared by the actions                                       *)
(***************************************************************************)
AddErrors(n) ==
  /\ report' = [report EXCEPT !.errors = @ + n]
  /\ errsOf' = [errsOf EXCEPT ![i] = @ + n]

NoErrors == UNCHANGED <<report, errsOf>>

(* What the server returns for get_resource_backups on resource rid. *)
BackupsOf(rid) == {b \in srvBackups : b.rid = rid}

(***************************************************************************)
(* run_with_timeout, main.py:110-133.                                      *)
(***************************************************************************)
(* main.py:124: the start time is taken and the loop is entered. *)
EnterPoll(fn, tmo) ==
  /\ pollFn' = fn
  /\ pollTimeout' = tmo
  /\ pollStart' = now
  /\ pollStat' = NoPoll
  /\ pc' = "poll"

PollIteration_NoSleep(ret, d, delay, nextpc) ==
  /\ pollStat' = [probes |-> pollStat.probes + 1,
                  sleeps |-> pollStat.sleeps, last |-> ret]
  /\ now' = now + d
  /\ IF ret # <<>>
     THEN /\ result' = ret
          /\ pc' = nextpc
     ELSE UNCHANGED <<pc, result>>

(* main.py:126-129: the probe took d seconds and returned ret (<<>> for an *)
(* empty result); a non-empty ret is returned to the caller, at nextpc.    *)
PollIteration(ret, d, delay, nextpc) ==
  /\ pollStat' = [probes |-> pollStat.probes + 1,
                  sleeps |-> pollStat.sleeps + (IF sleeps_after(ret) THEN 1 ELSE 0),
                  last |-> ret]
  /\ now' = now + d + (IF sleeps_after(ret) THEN delay ELSE 0)
  /\ IF ret # <<>>
     THEN /\ result' = ret
          /\ pc' = nextpc
     ELSE UNCHANGED <<pc, result>>

(* main.py:126: the probe raised; nothing in run_with_timeout catches it. *)
PollRaise ==
  /\ pollStat' = [pollStat EXCEPT !.probes = @ + 1, !.last = <<>>]
  /\ pc' = "except"
  /\ UNCHANGED <<now, result>>

(***************************************************************************)
(* BackupManager.backup, main.py:140-152: fetch the listing.               *)
(***************************************************************************)
GetResources ==
  /\ pc = "get_resources"
  /\ \E raise \in BOOLEAN :
       IF raise
       THEN /\ pc' = "except"
            /\ Mark({"raise"})
            /\ UNCHANGED <<i, timeout, report, errsOf>>
       ELSE IF resources = <<>>
       THEN /\ AddErrors(1)
            /\ pc' = "status"
            /\ Mark({"no_resources"})
            /\ UNCHANGED <<i, timeout>>
       ELSE /\ i' = 1
            /\ timeout' = BackupTimeout(resources[1].size)
            /\ pc' = "schedules"
            /\ UNCHANGED ops
            /\ NoErrors
  /\ UNCHANGED <<inputs, server, now, backups, start_time, result,
                 backup_new, backups_created, pollFn, pollTimeout, pollStart,
                 request, mainv, seen, handed, pollStat, calls>>

(***************************************************************************)
(* delete_resource_schedules, main.py:363-374: list the schedules that     *)
(* target the resource and delete each; the listing or one of the deletes  *)
(* may raise, leaving the schedules not yet deleted.                       *)
(***************************************************************************)
delete_resource_schedules(nextpc, tag) ==
  LET mine == {s \in srvSchedules : s.target = cur.id}
  IN  \E raise \in BOOLEAN, D \in SUBSET mine :
        /\ ~raise => D = mine
        /\ srvSchedules' = srvSchedules \ D
        /\ pc' = IF raise THEN "except" ELSE nextpc
        /\ Mark({tag} \cup (IF raise THEN {"raise"} ELSE {}))
        /\ NoErrors
        /\ UNCHANGED <<inputs, srvBackups, srvJob, driveFiles, now, i,
                       locals, mainv, seen, handed, pollStat, calls>>

DeleteSchedulesBefore_Skipped ==
  /\ pc = "schedules"
  /\ pc' = "check"
  /\ Mark({"schedules"})
  /\ NoErrors
  /\ UNCHANGED <<inputs, server, now, i, locals, mainv, seen, handed, pollStat, calls>>

(* main.py:155 *)
DeleteSchedulesBefore ==
  /\ pc = "schedules"
  /\ delete_resource_schedules("check", "schedules")

(***************************************************************************)
(* main.py:157-167: list the backups, newest first, and decide.            *)
(***************************************************************************)
CheckBackups ==
  /\ pc = "check"
  /\ \E raise \in BOOLEAN :
       IF raise
       THEN /\ pc' = "except"
            /\ Mark({"raise"})
            /\ UNCHANGED <<backups, start_time, result, backup_new, seen>>
       ELSE LET bs == SortDesc(BackupsOf(cur.id))
            IN  /\ backups' = bs
                /\ seen' = [seen EXCEPT ![i] = BackupsOf(cur.id)]
                /\ IF has_outdated_backup(bs, cur)
                   THEN /\ start_time' = now
                        /\ result' = <<>>
                        /\ backup_new' = <<>>
                        /\ pc' = IF cur.type = "project" THEN "proj_delete"
                                 ELSE "lib_invoke"
                        /\ Mark({"checked", "stale"})
                   ELSE /\ pc' = "sleep"
                        /\ Mark({"checked", "fresh"})
                        /\ UNCHANGED <<start_time, result, backup_new>>
  /\ NoErrors
  /\ UNCHANGED <<inputs, server, now, i, timeout, backups_created, pollFn,
                 pollTimeout, pollStart, request, mainv, handed, pollStat,
                 calls>>

(***************************************************************************)
(* main.py:170-173 with delete_project_backup (main.py:277-289): delete    *)
(* every listed backup not newer than the resource, in listing order.      *)
(* The response of a delete (bimcloud.py:239-242) is logged, not examined: *)
(* a delete the server refuses (a locked backup) leaves the backup where   *)
(* it is.                                                                  *)
(***************************************************************************)
obsolete_backups_None(bs, resource) == <<>>

obsolete_backups_OnlyNewest(bs, resource) ==
  LET all == SelectSeq(bs, LAMBDA b : b.time <= resource.modified)
  IN  IF all = <<>> THEN <<>> ELSE <<all[1]>>

(* main.py:170-171 *)
obsolete_backups(bs, resource) ==
  SelectSeq(bs, LAMBDA b : b.time <= resource.modified)

DeleteObsoleteBackups ==
  /\ pc = "proj_delete"
  /\ LET obsolete == obsolete_backups(backups, cur)
     IN  \E raise \in BOOLEAN, k \in 0..Len(obsolete) :
           LET issued == {obsolete[j] : j \in 1..k}
           IN  /\ ~raise => k = Len(obsolete)
               /\ raise => Len(obsolete) > 0
               /\ srvBackups' = srvBackups \ {b \in issued : ~b.locked}
               /\ calls' = [calls EXCEPT ![i].deleted = @ \cup {b.id : b \in issued}]
               /\ Mark((IF k > 0 THEN {"delete_backup"} ELSE {}) \cup
                       (IF raise THEN {"raise"} ELSE {}))
               /\ pc' = IF raise THEN "except" ELSE "proj_create"
  /\ NoErrors
  /\ UNCHANGED <<inputs, srvSchedules, srvJob, driveFiles, now, i, locals,
                 mainv, seen, handed, pollStat>>

(***************************************************************************)
(* create_project_backup, main.py:218-230, and the argument                *)
(* project_create_r['id'] of main.py:175: a response without an id makes   *)
(* create_project_backup return None, and None['id'] raises TypeError.     *)
(***************************************************************************)
CreateProjectBackup ==
  /\ pc = "proj_create"
  /\ \E outcome \in {"raise", "no_id", "job"} :
       CASE outcome = "raise" ->
              /\ pc' = "except"
              /\ Mark({"create", "raise"})
              /\ NoErrors
              /\ UNCHANGED <<srvJob, pollFn, pollTimeout, pollStart, pollStat>>
         [] outcome = "no_id" ->
              /\ AddErrors(1)
              /\ pc' = "except"
              /\ Mark({"create", "no_job_id", "type_error"})
              /\ UNCHANGED <<srvJob, pollFn, pollTimeout, pollStart, pollStat>>
         [] outcome = "job" ->
              /\ srvJob' = <<[id |-> <<"job", cur.id>>, status |-> "running",
                              projectId |-> cur.id]>>
              /\ EnterPoll("project", timeout)
              /\ Mark({"create"})
              /\ NoErrors
  /\ Sent("creates")
  /\ UNCHANGED <<inputs, srvBackups, srvSchedules, driveFiles, now, i,
                 timeout, backups, start_time, result, backup_new,
                 backups_created, request, mainv, seen, handed>>

(***************************************************************************)
(* The server side of a backup: what a new record looks like when it       *)
(* appears, and how a running one completes.                               *)
(***************************************************************************)
(* Whole seconds one call of a poll's probe may take. *)
CallSeconds == {0, 1}

NewBackupShapes ==
  { [status |-> StatusDone, size |-> 1],
    [status |-> StatusDone, size |-> 0],
    [status |-> StatusRunning, size |-> 1] }

NewBackup(rid, format, shape) ==
  [id |-> <<rid, now * MsPerSec>>, rid |-> rid, time |-> now * MsPerSec,
   status |-> shape.status, size |-> shape.size, format |-> format,
   locked |-> FALSE]

Progress(S) ==
  {S} \cup { (S \ {b}) \cup {[b EXCEPT !.status = StatusDone]} :
               b \in {x \in S : x.status = StatusRunning} }

(***************************************************************************)
(* run_with_timeout, main.py:124-129, driving is_project_backup_created    *)
(* (main.py:232-252): one iteration of the loop.  While the call is out    *)
(* the job may reach a terminal status; a completed job leaves a backup.   *)
(***************************************************************************)
ProbeProject ==
  /\ pc = "poll" /\ pollFn = "project"
  /\ within_deadline(now - pollStart, pollTimeout)
  /\ \E d \in CallSeconds, outcome \in {"raise", "empty", "jobs"},
        next \in {"running", "completed", "failed"}, shape \in NewBackupShapes :
       LET job == srvJob[1]
           turns == job.status = "running" /\ next # "running"
           job2 == IF turns THEN [job EXCEPT !.status = next] ELSE job
           ret == IF outcome = "jobs" /\ job2.status \in {"completed", "failed"}
                  THEN <<job2>> ELSE <<>>
       IN  /\ ~turns => next = job.status
           /\ ~(turns /\ next = "completed") => shape = [status |-> StatusDone, size |-> 1]
           /\ srvJob' = <<job2>>
           /\ srvBackups' = IF turns /\ next = "completed"
                            THEN srvBackups \cup {NewBackup(job.projectId, FormatProject, shape)}
                            ELSE srvBackups
           /\ IF outcome = "raise"
              THEN /\ PollRaise
                   /\ Mark({"probe_" \o pollFn, "raise"})
              ELSE /\ PollIteration(ret, d, PollDelay, "proj_valid")
                   /\ Mark({"probe_" \o pollFn} \cup
                           (IF ret # <<>> THEN {"job_" \o job2.status} ELSE {}))
  /\ NoErrors
  /\ UNCHANGED <<inputs, srvSchedules, driveFiles, i, timeout, backups,
                 start_time, backup_new, backups_created, pollFn, pollTimeout,
                 pollStart, request, mainv, seen, handed, calls>>

PollTimeout_Raises ==
  /\ pc = "poll"
  /\ ~within_deadline(now - pollStart, pollTimeout)
  /\ pc' = "except"
  /\ Mark({"timeout_" \o pollFn})
  /\ UNCHANGED <<inputs, server, now, i, locals, report, mainv, errsOf,
                 seen, handed, pollStat, calls>>

PollTimeout_Retries ==
  /\ pc = "poll"
  /\ ~within_deadline(now - pollStart, pollTimeout)
  /\ AddErrors(1)
  /\ result' = <<>>
  /\ pc' = IF pollFn = "library" THEN "lib_invoke"
           ELSE IF pollFn = "project" THEN "proj_create" ELSE "transfer"
  /\ Mark({"timeout_" \o pollFn})
  /\ UNCHANGED <<inputs, server, now, i, timeout, backups, start_time,
                 backup_new, backups_created, pollFn, pollTimeout, pollStart,
                 request, mainv, seen, handed, pollStat, calls>>

(***************************************************************************)
(* run_with_timeout, main.py:125 and 130-133: the deadline has elapsed.    *)
(* The caller goes on: a project or an upload is given up (main.py:176,    *)
(* 459-463), a library goes to its schedule cleanup (main.py:182).         *)
(***************************************************************************)
PollTimeout ==
  /\ pc = "poll"
  /\ ~within_deadline(now - pollStart, pollTimeout)
  /\ AddErrors(1)
  /\ result' = <<>>
  /\ pc' = IF pollFn = "library" THEN "lib_cleanup" ELSE "sleep"
  /\ Mark({"timeout_" \o pollFn})
  /\ UNCHANGED <<inputs, server, now, i, timeout, backups, start_time,
                 backup_new, backups_created, pollFn, pollTimeout, pollStart,
                 request, mainv, seen, handed, pollStat, calls>>

(***************************************************************************)
(* is_project_backup_valid, main.py:254-275 (called at main.py:176-177):   *)
(* the newest backup of the job's project with $time >= start_time, where  *)
(* start_time is the local clock in seconds, passed as is.                 *)
(***************************************************************************)
IsProjectBackupValid ==
  /\ pc = "proj_valid"
  /\ \E raise \in BOOLEAN :
       IF raise
       THEN /\ pc' = "except"
            /\ Mark({"validate", "raise"})
            /\ UNCHANGED backup_new
       ELSE LET job == result[1]
                bs == SortDesc({b \in BackupsOf(job.projectId) : b.time >= start_time})
            IN  IF bs # <<>> /\ backup_is_ready(bs[1])
                THEN /\ backup_new' = <<bs[1]>>
                     /\ pc' = "transfer"
                     /\ Mark({"validate", "valid"})
                ELSE /\ backup_new' = <<>>
                     /\ pc' = "sleep"
                     /\ Mark({"validate", "rejected"} \cup
                             (IF bs # <<>> /\ ~backup_is_ready(bs[1])
                              THEN {"unready"} ELSE {}))
  /\ NoErrors
  /\ UNCHANGED <<inputs, server, now, i, timeout, backups, start_time,
                 result, backups_created, pollFn, pollTimeout, pollStart,
                 request, mainv, seen, handed, pollStat, calls>>

(***************************************************************************)
(* invoke_library_backup, main.py:291-316 (called at main.py:180), and the *)
(* entry of run_with_timeout (main.py:181, 124).  An exception of the      *)
(* insert is swallowed; the request may or may not have reached the server.*)
(***************************************************************************)
InvokeLibraryBackup ==
  /\ pc = "lib_invoke"
  /\ \E outcome \in {"ok", "raise_before", "raise_after"} :
       /\ srvSchedules' = IF outcome = "raise_before" THEN srvSchedules
                          ELSE srvSchedules \cup {[target |-> cur.id, origin |-> "run"]}
       /\ Mark({"insert"} \cup (IF outcome = "raise_before" THEN {} ELSE {"inserted"}))
  /\ EnterPoll("library", timeout)
  /\ Sent("inserts")
  /\ NoErrors
  /\ UNCHANGED <<inputs, srvBackups, srvJob, driveFiles, now, i, timeout,
                 backups, start_time, result, backup_new, backups_created,
                 request, mainv, seen, handed>>

(* The backups is_library_backup_created asks for (main.py:319-332). *)
AutoBackupsSince(S, rid, t) ==
  {b \in S : b.rid = rid /\ b.format = FormatAuto /\ b.time >= t}

(***************************************************************************)
(* run_with_timeout driving is_library_backup_created (main.py:318-339).   *)
(* While a schedule targets the library the scheduler may fire, once.      *)
(***************************************************************************)
ProbeLibrary ==
  /\ pc = "poll" /\ pollFn = "library"
  /\ within_deadline(now - pollStart, pollTimeout)
  /\ \E d \in CallSeconds, raise \in BOOLEAN, fire \in BOOLEAN, shape \in NewBackupShapes :
       LET due == /\ \E s \in srvSchedules : s.target = cur.id
                  /\ AutoBackupsSince(srvBackups, cur.id, start_time * MsPerSec) = {}
           srv2 == IF fire THEN srvBackups \cup {NewBackup(cur.id, FormatAuto, shape)}
                   ELSE srvBackups
           found == SortDesc(AutoBackupsSince(srv2, cur.id, start_time * MsPerSec))
           ret == IF found # <<>> /\ found[1].time >= start_time
                  THEN <<found[1]>> ELSE <<>>
       IN  /\ fire => due
           /\ ~fire => shape = [status |-> StatusDone, size |-> 1]
           /\ srvBackups' = srv2
           /\ IF raise
              THEN /\ PollRaise
                   /\ Mark({"probe_" \o pollFn, "raise"})
              ELSE /\ PollIteration(ret, d, PollDelay, "lib_cleanup")
                   /\ Mark({"probe_" \o pollFn} \cup
                           (IF ret # <<>> THEN {"found"} ELSE {}))
  /\ NoErrors
  /\ UNCHANGED <<inputs, srvSchedules, srvJob, driveFiles, i, timeout,
                 backups, start_time, backup_new, backups_created, pollFn,
                 pollTimeout, pollStart, request, mainv, seen, handed, calls>>

CleanupSchedules_OnlyWhenFound ==
  /\ pc = "lib_cleanup"
  /\ IF result # <<>>
     THEN delete_resource_schedules("lib_valid", "cleanup")
     ELSE /\ pc' = "sleep"
          /\ UNCHANGED <<inputs, server, now, i, locals, report, mainv, hist>>

(* main.py:182-183: the cleanup after the poll, whatever its result. *)
CleanupSchedules ==
  /\ pc = "lib_cleanup"
  /\ delete_resource_schedules(IF result # <<>> THEN "lib_valid" ELSE "sleep",
                               "cleanup")

is_library_backup_valid_AnyId(bs, backup_id) ==
  IF bs # <<>> /\ backup_is_ready(bs[1]) THEN <<bs[1]>> ELSE <<>>

(* main.py:355-361: the test of the first listed backup; <<>> is False. *)
is_library_backup_valid(bs, backup_id) ==
  IF bs # <<>> /\ bs[1].id = backup_id /\ backup_is_ready(bs[1])
  THEN <<bs[1]>> ELSE <<>>

IsLibraryBackupValid_Rechecks ==
  /\ pc = "lib_valid"
  /\ \E raise \in BOOLEAN, another \in BOOLEAN, srv1 \in Progress(srvBackups) :
       LET srv2 == IF another
                   THEN srv1 \cup {NewBackup(cur.id, FormatAuto,
                                             [status |-> StatusDone, size |-> 1])}
                   ELSE srv1
       IN
       /\ another => now * MsPerSec > result[1].time
       /\ srvBackups' = srv2
       /\ IF raise
          THEN /\ pc' = "except"
               /\ Mark({"validate", "raise"})
               /\ UNCHANGED backup_new
          ELSE LET bs == SortDesc(AutoBackupsSince(srv2, cur.id, start_time))
                   valid == is_library_backup_valid(bs, result[1].id)
               IN  IF valid # <<>>
                   THEN /\ backup_new' = valid
                        /\ pc' = "transfer"
                        /\ Mark({"validate", "valid"})
                   ELSE /\ backup_new' = <<>>
                        /\ pc' = IF bs # <<>> /\ ~backup_is_ready(bs[1])
                                 THEN "lib_valid" ELSE "sleep"
                        /\ Mark({"validate", "rejected"} \cup
                             (IF bs # <<>> /\ ~backup_is_ready(bs[1])
                              THEN {"unready"} ELSE {}))
  /\ NoErrors
  /\ UNCHANGED <<inputs, srvSchedules, srvJob, driveFiles, now, i, timeout,
                 backups, start_time, result, backups_created, pollFn,
                 pollTimeout, pollStart, request, mainv, seen, handed, pollStat, calls>>

(***************************************************************************)
(* is_library_backup_valid, main.py:341-361 (called at main.py:183-184).   *)
(* Since the poll the backup may have completed, and another automatic     *)
(* backup of the library may have been taken.                              *)
(***************************************************************************)
IsLibraryBackupValid ==
  /\ pc = "lib_valid"
  /\ \E raise \in BOOLEAN, another \in BOOLEAN, srv1 \in Progress(srvBackups) :
       LET srv2 == IF another
                   THEN srv1 \cup {NewBackup(cur.id, FormatAuto,
                                             [status |-> StatusDone, size |-> 1])}
                   ELSE srv1
       IN
       /\ another => now * MsPerSec > result[1].time
       /\ srvBackups' = srv2
       /\ IF raise
          THEN /\ pc' = "except"
               /\ Mark({"validate", "raise"})
               /\ UNCHANGED backup_new
          ELSE LET bs == SortDesc(AutoBackupsSince(srv2, cur.id, start_time))
                   valid == is_library_backup_valid(bs, result[1].id)
               IN  IF valid # <<>>
                   THEN /\ backup_new' = valid
                        /\ pc' = "transfer"
                        /\ Mark({"validate", "valid"})
                   ELSE /\ backup_new' = <<>>
                        /\ pc' = "sleep"
                        /\ Mark({"validate", "rejected"} \cup
                             (IF bs # <<>> /\ ~backup_is_ready(bs[1])
                              THEN {"unready"} ELSE {}))
  /\ NoErrors
  /\ UNCHANGED <<inputs, srvSchedules, srvJob, driveFiles, now, i, timeout,
                 backups, start_time, result, backups_created, pollFn,
                 pollTimeout, pollStart, request, mainv, seen, handed, pollStat, calls>>

(***************************************************************************)
(* transfer_backup, main.py:440-446, with get_backup_data (main.py:376-    *)
(* 425): the streamed download.  An exception inside get_backup_data and   *)
(* the mid-stream timeout each count an error before returning None, and   *)
(* transfer_backup counts one more for the missing data; a non-success     *)
(* response only yields None.                                              *)
(***************************************************************************)
GetBackupData ==
  /\ pc = "transfer"
  /\ LET tmo == TransferTimeout(cur.size)
     IN  \E outcome \in {"raise", "not_ok", "stream_timeout", "data"},
            el \in {0, tmo, tmo + 1} :
           /\ outcome = "stream_timeout" <=> el > tmo
           /\ outcome \in {"raise", "not_ok"} => el = 0
           /\ now' = now + el
           /\ Mark({"transfer", "download_" \o outcome})
           /\ IF transfer_proceeds(outcome)
              THEN /\ pc' = "upload_prep"
                   /\ NoErrors
              ELSE /\ pc' = "sleep"
                   /\ AddErrors(IF outcome = "not_ok" THEN 1 ELSE 2)
  /\ handed' = [handed EXCEPT ![i] = backup_new]
  /\ Sent("downloads")
  /\ UNCHANGED <<inputs, server, i, locals, mainv, seen, pollStat>>

(***************************************************************************)
(* transfer_backup, main.py:447-458: list the destination folder           *)
(* (drive.py:55-66), match by name, prepare the upload (drive.py:68-104)   *)
(* and enter run_with_timeout.  A failure of the listing ends the run.     *)
(***************************************************************************)
upload_request_AlwaysCreate(files, name, chunks) ==
  [name |-> name, fileId |-> <<>>, files |-> files, chunks |-> chunks]

(* main.py:449-456 and drive.py:93-104: the request updates the listed     *)
(* file of that name if there is one, and creates a file otherwise.        *)
upload_request(files, name, chunks) ==
  LET matches == {f \in files : f.name = name}
  IN  [name |-> name,
       fileId |-> IF matches = {} THEN <<>> ELSE <<(CHOOSE f \in matches : TRUE).id>>,
       files |-> files, chunks |-> chunks]

PrepareUpload ==
  /\ pc = "upload_prep"
  /\ \E raise \in BOOLEAN, chunks \in 1..MaxChunks :
       IF raise
       THEN /\ chunks = 1
            /\ pc' = "except"
            /\ Mark({"raise"})
            /\ UNCHANGED <<request, pollFn, pollTimeout, pollStart, pollStat>>
       ELSE \E files \in files_list(driveFiles) :
              /\ request' = <<upload_request(files, file_name(cur), chunks)>>
              /\ Mark({IF request'[1].fileId = <<>> THEN "upload_create"
                       ELSE "upload_update"})
              /\ EnterPoll("upload", TransferTimeout(cur.size))
  /\ NoErrors
  /\ UNCHANGED <<inputs, server, now, i, timeout, backups, start_time,
                 result, backup_new, backups_created, mainv, seen, handed, calls>>

(***************************************************************************)
(* run_with_timeout driving upload_chunks (drive.py:106-124, delay 0.05 s):*)
(* one next_chunk.  The last chunk stores the file: an update keeps the    *)
(* file object, a create adds one (drive.py:98-103); main.py:459-461 and   *)
(* 189-190 then count the backup.                                          *)
(***************************************************************************)
ProbeUpload ==
  /\ pc = "poll" /\ pollFn = "upload"
  /\ within_deadline(now - pollStart, pollTimeout)
  /\ \E d \in {0, pollTimeout}, raise \in BOOLEAN :
       LET req == request[1]
           ret == IF req.chunks > 1 THEN <<>>
                  ELSE <<[id |-> IF req.fileId = <<>> THEN <<"up", cur.id>>
                                 ELSE req.fileId[1]]>>
       IN  IF raise
           THEN /\ PollRaise
                /\ Mark({"probe_" \o pollFn, "raise"})
                /\ UNCHANGED <<request, driveFiles, backups_created>>
           ELSE /\ PollIteration(ret, d, UploadDelay, "sleep")
                /\ IF ret = <<>>
                   THEN /\ request' = <<[req EXCEPT !.chunks = @ - 1]>>
                        /\ Mark({"probe_" \o pollFn})
                        /\ UNCHANGED <<driveFiles, backups_created>>
                   ELSE /\ driveFiles' = stored_files(driveFiles, req, cur.id)
                        /\ backups_created' = backups_created + 1
                        /\ Mark({"probe_" \o pollFn, "uploaded"})
                        /\ UNCHANGED request
  /\ Sent("chunks")
  /\ NoErrors
  /\ UNCHANGED <<inputs, srvBackups, srvSchedules, srvJob, i, timeout,
                 backups, start_time, backup_new, pollFn, pollTimeout,
                 pollStart, mainv, seen, handed>>

(***************************************************************************)
(* main.py:194-195 and the loop header main.py:148-152: the inter-resource *)
(* delay, then the next resource or the end of the loop.  Meanwhile the    *)
(* server goes on: a running backup may complete, and so may a job the     *)
(* poll gave up on (nothing cancels it).                                   *)
(***************************************************************************)
NextResource ==
  /\ pc = "sleep"
  /\ now' = now + InterResourceDelay
  /\ \E late \in BOOLEAN :
       /\ late => (srvJob # <<>> /\ srvJob[1].status = "running")
       /\ srvJob' = IF late THEN <<[srvJob[1] EXCEPT !.status = "completed"]>>
                    ELSE srvJob
       /\ srvBackups' \in Progress(
            IF late
            THEN srvBackups \cup {NewBackup(srvJob[1].projectId, FormatProject,
                                            [status |-> StatusDone, size |-> 1])}
            ELSE srvBackups)
  /\ IF i < Len(resources)
     THEN /\ i' = i + 1
          /\ timeout' = BackupTimeout(resources[i + 1].size)
          /\ pc' = "schedules"
          /\ UNCHANGED ops
     ELSE /\ pc' = "finish"
          /\ UNCHANGED ops
          /\ UNCHANGED <<i, timeout>>
  /\ NoErrors
  /\ UNCHANGED <<inputs, srvSchedules, driveFiles, backups,
                 start_time, result, backup_new, backups_created, pollFn,
                 pollTimeout, pollStart, request, mainv, seen, handed, pollStat, calls>>

(* main.py:197-198 *)
FinishBackup ==
  /\ pc = "finish"
  /\ report' = [report EXCEPT !.backups = backups_created, !.endtime = now]
  /\ pc' = "status"
  /\ UNCHANGED <<inputs, server, now, i, locals, mainv, ops, errsOf, seen, handed, pollStat, calls>>

(* __main__, main.py:490: backup() returned. *)
MainStatus ==
  /\ pc = "status"
  /\ status' = run_status(report.errors)
  /\ pc' = "finally"
  /\ UNCHANGED <<inputs, server, now, i, locals, report, errors, payload,
                 hist>>

(* __main__, main.py:495-498: an exception left backup(). *)
MainExcept ==
  /\ pc = "except"
  /\ errors' = errors + 1
  /\ status' = "Fail"
  /\ pc' = "finally"
  /\ UNCHANGED <<inputs, server, now, i, locals, report, payload, hist>>

(* __main__, main.py:500-512: the payload handed to the report sink. *)
MainFinally ==
  /\ pc = "finally"
  /\ payload' = <<[items |-> report.backups, errors |-> report.errors,
                   status |-> status]>>
  /\ pc' = "ended"
  /\ UNCHANGED <<inputs, server, now, i, locals, report, errors, status,
                 hist>>

Next ==
  \/ GetResources
  \/ DeleteSchedulesBefore
  \/ CheckBackups
  \/ DeleteObsoleteBackups
  \/ CreateProjectBackup
  \/ ProbeProject
  \/ PollTimeout
  \/ IsProjectBackupValid
  \/ InvokeLibraryBackup
  \/ ProbeLibrary
  \/ CleanupSchedules
  \/ IsLibraryBackupValid
  \/ GetBackupData
  \/ PrepareUpload
  \/ ProbeUpload
  \/ NextResource
  \/ FinishBackup
  \/ MainStatus
  \/ MainExcept
  \/ MainFinally

Spec == Init /\ [][Next]_vars

(***************************************************************************)
(* The functions run on their own: the orchestrator is not running         *)
(* (main.py:82-90, the state after construction) and one function is       *)
(* applied to arguments drawn from a bounded set.                          *)
(***************************************************************************)
NoRun ==
  /\ resources = <<>>
  /\ srvBackups = {} /\ srvSchedules = {} /\ srvJob = <<>> /\ driveFiles = {}
  /\ i = 0
  /\ backups = <<>>
  /\ start_time = 0
  /\ backup_new = <<>>
  /\ backups_created = 0
  /\ request = <<>>
  /\ report = [backups |-> 0, endtime |-> 0, errors |-> 0]
  /\ errors = 0
  /\ status = "unset"
  /\ payload = <<>>
  /\ ops = [k \in {0} |-> {}]
  /\ errsOf = [k \in {0} |-> 0]
  /\ seen = [k \in {0} |-> {}]
  /\ handed = [k \in {0} |-> <<>>]
  /\ calls = [k \in {0} |-> NoCalls]

(***************************************************************************)
(* get_timeout_from_filesize on its own, main.py:93-108.                   *)
(***************************************************************************)
EstimatorArgs ==
  [size : 0..MaxSize, b : {0, BaseSeconds}, f : {ScaleFactor, ScaleFactor + 1},
   e : {1, 2, 3}, div : {1, SizeDivisor, SizeDivisor + 1}]

InitEstimator ==
  /\ args \in EstimatorArgs
  /\ pc = "estimate"
  /\ timeout = 0
  /\ now = 1
  /\ result = <<>>
  /\ pollFn = "none" /\ pollTimeout = 0 /\ pollStart = 0 /\ pollStat = NoPoll
  /\ NoRun

(* main.py:152: timeout = self.get_timeout_from_filesize(...) *)
Estimate ==
  /\ pc = "estimate"
  /\ timeout' = get_timeout_from_filesize(args.size, args.b, args.f, args.e, args.div)
  /\ pc' = "estimated"
  /\ UNCHANGED <<inputs, server, now, i, backups, start_time, result,
                 backup_new, backups_created, pollFn, pollTimeout, pollStart,
                 request, report, mainv, hist>>

NextEstimator == Estimate

SpecEstimator == InitEstimator /\ [][NextEstimator]_vars

(***************************************************************************)
(* run_with_timeout on its own, main.py:110-133, driving a probe that      *)
(* always returns, with a result or without, while the clock advances by   *)
(* at least the delay over each sleep.                                     *)
(***************************************************************************)
DriverArgs == [deadline : (0 - 1)..MaxDeadline, delay : 1..MaxDelay]

InitDriver ==
  /\ args \in DriverArgs
  /\ pc = "call"
  /\ now \in {1, 2}
  /\ timeout = 0
  /\ result = <<>>
  /\ pollFn = "none" /\ pollTimeout = 0 /\ pollStart = 0 /\ pollStat = NoPoll
  /\ NoRun

(* main.py:124 *)
DriverEnter ==
  /\ pc = "call"
  /\ EnterPoll("probe", args.deadline)
  /\ UNCHANGED <<inputs, server, now, i, timeout, backups, start_time, result,
                 backup_new, backups_created, request, report, mainv, ops,
                 errsOf, seen, handed, calls>>

(* main.py:125-129: one iteration; the sleep may last longer than asked. *)
DriverProbe ==
  /\ pc = "poll" /\ pollFn = "probe"
  /\ within_deadline(now - pollStart, pollTimeout)
  /\ \E d \in CallSeconds, hit \in BOOLEAN, over \in {0, 1} :
       /\ hit => over = 0
       /\ PollIteration(IF hit THEN <<"value">> ELSE <<>>, d, args.delay + over,
                        "returned")
  /\ UNCHANGED <<inputs, server, i, timeout, backups, start_time, backup_new,
                 backups_created, pollFn, pollTimeout, pollStart, request,
                 report, mainv, ops, errsOf, seen, handed, calls>>

NextDriver ==
  \/ DriverEnter
  \/ DriverProbe
  \/ PollTimeout

SpecDriver == InitDriver /\ [][NextDriver]_vars /\ WF_vars(NextDriver)

(***************************************************************************)
(* Vocabulary of the properties                                            *)
(***************************************************************************)
NumResources == Len(resources)
Listed == 1..NumResources

(* An exception left the processing of resource k. *)
Raised(k) == Did(k, "raise") \/ Did(k, "type_error")

(* The loop body of resource k ran to its end (main.py:195). *)
Passed(k) ==
  \/ k < i
  \/ k = i /\ pc \in {"sleep", "finish", "status"}
  \/ k = i /\ pc \in {"finally", "ended"} /\ ~Raised(k)

TimedOut(k) ==
  Did(k, "timeout_project") \/ Did(k, "timeout_library") \/ Did(k, "timeout_upload")

LatestTime(S) == CHOOSE t \in {b.time : b \in S} : \A b \in S : b.time <= t

WorkTags ==
  {"stale", "delete_backup", "create", "insert", "inserted", "probe_project",
   "probe_library", "probe_upload", "validate", "valid", "transfer", "uploaded"}

ScheduleTargets(k) == \E s \in srvSchedules : s.target = resources[k].id

(***************************************************************************)
(* C1: at the end of every run, however it ends, no schedule inserted by   *)
(* the orchestrator for a library is still on the server.                  *)
(* Refuted: an exception of the poll (or of the cleanup listing) leaves    *)
(* backup() before main.py:182 has deleted the schedule.                   *)
(***************************************************************************)
C1_NoScheduleLeftBehind ==
  pc = "ended" => \A s \in srvSchedules : s.origin # "run"

(***************************************************************************)
(* C2: when the poll of a library times out, the schedule cleanup is what  *)
(* the orchestrator does next; once the cleanup has returned no schedule   *)
(* targets the resource; no backup is validated or transferred for it; and *)
(* the run report counts exactly one error for it.                         *)
(***************************************************************************)
C2_TimeoutStillCleansUp ==
  \A k \in Listed :
    Did(k, "timeout_library") =>
      /\ (i = k /\ pc = "lib_cleanup") \/ Did(k, "cleanup")
      /\ (Did(k, "cleanup") /\ ~Raised(k)) => ~ScheduleTargets(k)
      /\ ~Did(k, "validate") /\ ~Did(k, "valid") /\ ~Did(k, "transfer")
      /\ errsOf[k] = 1

C2_Witness ==
  \E k \in Listed :
    /\ Did(k, "inserted") /\ Did(k, "timeout_library")
    /\ Did(k, "cleanup") /\ Passed(k)
    /\ ~ScheduleTargets(k) /\ errsOf[k] = 1

(***************************************************************************)
(* C3: when the creation request returns no job id, the error is counted,  *)
(* nothing is polled or transferred for the resource and the resources     *)
(* after it are still processed.                                           *)
(* Refuted: main.py:175 subscripts the None that create_project_backup     *)
(* returned, and the TypeError ends the run.                               *)
(***************************************************************************)
C3_NoJobIdSkipsOnlyTheResource ==
  \A k \in Listed :
    Did(k, "no_job_id") =>
      /\ errsOf[k] >= 1
      /\ ~Did(k, "probe_project") /\ ~Did(k, "transfer")
      /\ pc = "ended" => \A j \in (k + 1)..NumResources : j <= i

(***************************************************************************)
(* C4: when the polled job ends failed, no backup is accepted, nothing is  *)
(* transferred and the run report counts an error for the resource.        *)
(* Refuted: no error is counted (main.py:176-177, 254-275).                *)
(***************************************************************************)
C4_FailedJobCountsAnError ==
  \A k \in Listed :
    (Did(k, "job_failed") /\ Passed(k)) =>
      /\ ~Did(k, "valid") /\ ~Did(k, "transfer")
      /\ errsOf[k] >= 1

(***************************************************************************)
(* C5: when validation rejects the candidate (status not done, or size 0), *)
(* nothing is transferred and the run report counts an error.              *)
(* Refuted: the validations return None/False without counting.            *)
(***************************************************************************)
C5_RejectedCandidateCountsAnError ==
  \A k \in Listed :
    (Did(k, "unready") /\ Passed(k)) =>
      /\ ~Did(k, "transfer")
      /\ errsOf[k] >= 1

(***************************************************************************)
(* C6: a transport error of a collaborator call made for one resource is   *)
(* counted in the run report and aborts only that resource: the later      *)
(* resources of the listing are still processed.                           *)
(* Refuted: nothing in backup() catches it; it ends the run at             *)
(* main.py:495-498, where only the local errors of __main__ is counted.    *)
(***************************************************************************)
C6_TransportErrorAbortsOnlyTheResource ==
  \A k \in Listed :
    (Did(k, "raise") /\ pc = "ended") =>
      /\ errsOf[k] >= 1
      /\ \A j \in (k + 1)..NumResources : j <= i

(***************************************************************************)
(* C7: when the deadline of a poll elapses (job poll, library poll or      *)
(* upload), the driver returns instead of raising, an error is counted,    *)
(* that resource gets no validation or transfer (no finished upload) and   *)
(* the loop goes on to the next resource.                                  *)
(***************************************************************************)
C7_TimeoutAbandonsOnlyTheResource ==
  \A k \in Listed :
    TimedOut(k) =>
      /\ errsOf[k] >= 1
      /\ (Did(k, "timeout_project") \/ Did(k, "timeout_library")) =>
           (~Did(k, "validate") /\ ~Did(k, "transfer"))
      /\ Did(k, "timeout_upload") => ~Did(k, "uploaded")
      /\ (~Raised(k) /\ pc \in {"except", "finally", "ended"}) =>
           \/ i > k
           \/ k = NumResources /\ pc # "except" /\ status # "Fail"

C7_Witness ==
  \E k \in Listed :
    /\ TimedOut(k) /\ ~Raised(k)
    /\ k < i /\ Did(i, "checked")

(***************************************************************************)
(* C8: the transfer is only ever handed a backup that validation returned, *)
(* and that backup had status done and a file size above 0.                *)
(***************************************************************************)
C8_OnlyValidBackupsTransferred ==
  \A k \in Listed :
    /\ Did(k, "transfer") => (handed[k] # <<>> /\ Did(k, "valid"))
    /\ handed[k] # <<>> =>
         (handed[k][1].status = StatusDone /\ handed[k][1].size > 0)

C8_Witness ==
  \E k \in Listed :
    /\ Did(k, "transfer") /\ handed[k] # <<>>
    /\ \E b \in srvBackups : b.rid = resources[k].id /\ b.id = handed[k][1].id

(***************************************************************************)
(* C9: a resource whose newest backup is not older than its last           *)
(* modification is not stale: no workflow and no transfer starts for it.   *)
(***************************************************************************)
C9_BackedUpResourceIsSkipped ==
  \A k \in Listed :
    (Did(k, "checked") /\ seen[k] # {}
       /\ LatestTime(seen[k]) >= resources[k].modified) =>
      (Did(k, "fresh") /\ ops[k] \cap WorkTags = {})

C9_Witness ==
  \E k \in Listed :
    /\ Did(k, "checked") /\ seen[k] # {}
    /\ LatestTime(seen[k]) = resources[k].modified
    /\ Passed(k)

(***************************************************************************)
(* C10: a resource without backups is not stale exactly when its           *)
(* modification time equals its upload time; otherwise it is stale and     *)
(* the workflow of its type, and only that one, is started.                *)
(***************************************************************************)
C10_FirstBackupRule ==
  \A k \in Listed :
    (Did(k, "checked") /\ seen[k] = {}) =>
      LET r == resources[k]
      IN  /\ Did(k, "fresh") <=> r.modified = r.uploaded
          /\ Did(k, "fresh") => ops[k] \cap WorkTags = {}
          /\ r.modified # r.uploaded =>
               /\ Did(k, "stale")
               /\ r.type = "project" =>
                    /\ ~Did(k, "insert")
                    /\ \/ i = k /\ pc \in {"proj_delete", "proj_create"}
                       \/ Did(k, "create")
               /\ r.type = "library" =>
                    /\ ~Did(k, "create")
                    /\ \/ i = k /\ pc = "lib_invoke"
                       \/ Did(k, "insert")

C10_Witness ==
  /\ NumResources = 2
  /\ Did(1, "fresh") /\ seen[1] = {}
  /\ Did(2, "checked") /\ seen[2] = {} /\ Did(2, "insert")

(***************************************************************************)
(* C11: when the first probe of a poll returns a non-empty result, the     *)
(* driver returns exactly that result, without having slept and without    *)
(* calling the probe again, and the error count is unchanged.              *)
(***************************************************************************)
C11_FirstHitReturnsAtOnce ==
  [][ /\ (pc = "poll" /\ pollStat.probes = 0 /\ pollStat'.probes = 1
            /\ pollStat'.last # <<>>) =>
           /\ pc' \notin {"poll", "except"}
           /\ result' = pollStat'.last
           /\ pollStat'.sleeps = 0
           /\ report'.errors = report.errors
      /\ (pollStat.probes = 1 /\ pollStat.last # <<>>) =>
           (pollStat' = pollStat \/ pollStat' = NoPoll) ]_vars

C11_Witness ==
  /\ pc \in {"proj_valid", "lib_cleanup"}
  /\ pollStat.probes = 1 /\ pollStat.sleeps = 0
  /\ pollStat.last # <<>> /\ result = pollStat.last

(***************************************************************************)
(* C12: a probe is only started while the time elapsed since the start of  *)
(* the poll is below the timeout; an empty result keeps the driver in its  *)
(* loop; and the driver leaves the loop without a result only once the     *)
(* elapsed time has reached the timeout, returning None after counting     *)
(* one error.                                                              *)
(***************************************************************************)
C12_TimeoutEndsThePoll ==
  [][ /\ (pollStat'.probes = pollStat.probes + 1) =>
           /\ pc = "poll"
           /\ now - pollStart < pollTimeout
           /\ pollStat'.last = <<>> => pc' \in {"poll", "except"}
      /\ (pc = "poll" /\ pc' \notin {"poll", "except"} /\ pollStat' = pollStat) =>
           /\ now - pollStart >= pollTimeout
           /\ result' = <<>>
           /\ report'.errors = report.errors + 1 ]_vars

C12_Witness ==
  /\ i \in Listed /\ TimedOut(i)
  /\ pc \in {"sleep", "lib_cleanup"}
  /\ pollStat.probes >= 2 /\ pollStat.last = <<>>
  /\ result = <<>> /\ now - pollStart >= pollTimeout

(***************************************************************************)
(* C13: for a stale project, by the time the creation request is sent a    *)
(* delete has been issued for every backup of the listing whose time is    *)
(* not after the resource's modification time.                             *)
(***************************************************************************)
C13_ObsoleteBackupsDeletedFirst ==
  \A k \in Listed :
    (/\ resources[k].type = "project"
     /\ Did(k, "stale")
     /\ (i = k /\ pc = "proj_create") \/ calls[k].creates > 0) =>
      {b.id : b \in {x \in seen[k] : x.time <= resources[k].modified}}
        \subseteq calls[k].deleted

C13_Witness ==
  \E k \in Listed :
    /\ calls[k].creates = 1
    /\ Cardinality(seen[k]) = 2
    /\ calls[k].deleted = {b.id : b \in seen[k]}

(***************************************************************************)
(* C14: every backup the project validation accepts was created at or      *)
(* after the start of the workflow.                                        *)
(* Refuted: main.py:262 compares the server's millisecond timestamps with  *)
(* the start time in seconds, so the filter lets every backup through; a   *)
(* backup the server kept (its delete refused) is accepted after a failed  *)
(* job.                                                                    *)
(***************************************************************************)
C14_AcceptedBackupIsNew ==
  (pc = "transfer" /\ cur.type = "project") =>
    backup_new[1].time >= start_time * MsPerSec

(***************************************************************************)
(* C15: the upload request made for a resource carries the destination     *)
(* name of the resource; when the folder listing holds a file of that name *)
(* the request updates that file, otherwise it creates a file.             *)
(***************************************************************************)
C15_UpdateOnNameMatch ==
  (pc = "poll" /\ pollFn = "upload") =>
    LET req == request[1]
        matches == {f \in req.files : f.name = file_name(cur)}
    IN  /\ req.name = file_name(cur)
        /\ matches # {} => (req.fileId # <<>> /\ req.fileId[1] \in {f.id : f \in matches})
        /\ matches = {} => req.fileId = <<>>

C15_Witness ==
  /\ pc = "poll" /\ pollFn = "upload"
  /\ request[1].fileId = << <<"f0">> >>
  /\ \E f \in request[1].files : f.name = file_name(cur)

(***************************************************************************)
(* C16: after a successful transfer the destination folder holds exactly   *)
(* one file of the resource's destination name.                            *)
(* Refuted: the listing is one page of at most pageSize files              *)
(* (drive.py:58-63); when the resource's file is not on that page a second *)
(* file of the same name is created.                                       *)
(***************************************************************************)
C16_OneFilePerResource ==
  \A k \in Listed :
    Did(k, "uploaded") =>
      Cardinality({f \in driveFiles : f.name = file_name(resources[k])}) = 1

(***************************************************************************)
(* C17: when the download ends by the mid-stream timeout or by a           *)
(* non-success response, the transfer fails: an error is counted, no       *)
(* upload is prepared or started and no backup is counted.                 *)
(***************************************************************************)
C17_FailedDownloadUploadsNothing ==
  \A k \in Listed :
    (Did(k, "download_stream_timeout") \/ Did(k, "download_not_ok")) =>
      /\ errsOf[k] >= 1
      /\ calls[k].chunks = 0
      /\ ~Did(k, "upload_create") /\ ~Did(k, "upload_update")
      /\ ~Did(k, "uploaded")
      /\ i = k => pc \notin {"upload_prep", "poll"}

C17_Witness ==
  \E k \in Listed :
    /\ Did(k, "download_not_ok") /\ errsOf[k] = 1
    /\ calls[k].downloads = 1 /\ calls[k].chunks = 0
    /\ Passed(k)

(***************************************************************************)
(* C18: nothing is retried: a resource gets at most one creation request,  *)
(* one schedule insertion and one download attempt, and after a poll has   *)
(* timed out for it no further backup or transfer request is sent for it.  *)
(***************************************************************************)
C18_NoRetries ==
  [][ \A k \in Listed :
        /\ calls'[k].creates <= 1
        /\ calls'[k].inserts <= 1
        /\ calls'[k].downloads <= 1
        /\ TimedOut(k) => calls'[k] = calls[k] ]_vars

C18_Witness ==
  \E k \in Listed :
    /\ Did(k, "timeout_upload") /\ Passed(k)
    /\ calls[k].creates + calls[k].inserts = 1
    /\ calls[k].downloads = 1 /\ calls[k].chunks >= 1

(***************************************************************************)
(* C19: for a resource that is not stale the orchestrator deletes no       *)
(* backup, sends no creation request, inserts no schedule and transfers    *)
(* nothing, and the run report gets no error and no backup from it.        *)
(***************************************************************************)
NotStale(k) ==
  /\ Did(k, "checked")
  /\ \/ seen[k] # {} /\ LatestTime(seen[k]) >= resources[k].modified
     \/ seen[k] = {} /\ resources[k].modified = resources[k].uploaded

C19_FreshResourceUntouched ==
  \A k \in Listed :
    NotStale(k) =>
      /\ calls[k] = NoCalls
      /\ ~Did(k, "delete_backup") /\ ~Did(k, "create") /\ ~Did(k, "insert")
      /\ ~Did(k, "transfer") /\ ~Did(k, "uploaded")
      /\ errsOf[k] = 0
      /\ i = k => pc \in {"sleep", "finish", "status", "finally", "ended"}

C19_Witness ==
  \E k \in Listed :
    /\ NotStale(k) /\ k < i
    /\ calls[k] = NoCalls /\ errsOf[k] = 0
    /\ calls[i].downloads = 1

(***************************************************************************)
(* C20: at the end of the run the status is "Done" exactly when no         *)
(* failure happened for any resource: no timeout, failed creation, failed  *)
(* job, rejected candidate, failed transfer or exception.                  *)
(* Refuted: a failed job and a rejected candidate count no error (C4, C5), *)
(* so main.py:490 still reports "Done".                                    *)
(***************************************************************************)
Failure(k) ==
  \/ TimedOut(k) \/ Raised(k)
  \/ Did(k, "no_resources") \/ Did(k, "no_job_id")
  \/ Did(k, "job_failed") \/ Did(k, "rejected")
  \/ Did(k, "download_raise") \/ Did(k, "download_not_ok")
  \/ Did(k, "download_stream_timeout")

C20_DoneOnlyWithoutFailure ==
  pc = "ended" => (status = "Done" <=> \A k \in 0..NumResources : ~Failure(k))

(***************************************************************************)
(* C21: the estimator returns base + scale * (size / divisor) ^ exponent,  *)
(* the scaled term rounded: the quotient is what is raised to the          *)
(* exponent.                                                               *)
(* Refuted: main.py:108 writes size/div ** e, which Python reads as        *)
(* size / (div ** e).                                                      *)
(***************************************************************************)
C21_QuotientIsRaised ==
  pc = "estimated" =>
    timeout = args.b + RoundHalfEven(args.f * Pow(args.size, args.e),
                                     Pow(args.div, args.e))

(***************************************************************************)
(* C22: for fixed base, scale, exponent and divisor the estimate of a size *)
(* is not below the estimate of any smaller size.                          *)
(***************************************************************************)
C22_EstimateIsMonotone ==
  pc = "estimated" =>
    \A s \in 0..args.size :
      get_timeout_from_filesize(s, args.b, args.f, args.e, args.div) <= timeout

C22_Witness ==
  /\ pc = "estimated" /\ args.size > 1 /\ args.e = 2
  /\ get_timeout_from_filesize(0, args.b, args.f, args.e, args.div) < timeout
  /\ get_timeout_from_filesize(args.size - 1, args.b, args.f, args.e, args.div) = timeout

(***************************************************************************)
(* C23: the library validation yields the candidate exactly when the       *)
(* newest automatic backup of the library at validation time has the id of *)
(* the backup the poll found, status done and a file size above 0; in      *)
(* every other case, and when the poll found nothing, the workflow yields  *)
(* no backup.                                                              *)
(***************************************************************************)
NewestAutomatic(S, rid) ==
  SortDesc({b \in S : b.rid = rid /\ b.format = FormatAuto})

C23_LibraryValidatedIffNewestMatches ==
  [][ /\ (pc = "lib_valid" /\ pc' # "except") =>
           LET bs == NewestAutomatic(srvBackups', cur.id)
               ok == /\ bs # <<>>
                     /\ bs[1].id = result[1].id
                     /\ bs[1].status = StatusDone
                     /\ bs[1].size > 0
           IN  /\ ok => (backup_new' = <<bs[1]>> /\ pc' = "transfer")
               /\ ~ok => (backup_new' = <<>> /\ pc' = "sleep")
      /\ (pc = "lib_cleanup" /\ result = <<>> /\ pc' # "except") =>
           (backup_new' = <<>> /\ pc' = "sleep") ]_vars

C23_Witness ==
  /\ pc = "sleep" /\ cur.type = "library"
  /\ Did(i, "rejected") /\ ~Did(i, "unready")
  /\ result # <<>>
  /\ \E b \in srvBackups : b.id = result[1].id /\ backup_is_ready(b)
  /\ NewestAutomatic(srvBackups, cur.id)[1].id # result[1].id

CreationFailed(k) ==
  /\ resources[k].type = "project" /\ Did(k, "stale")
  /\ calls[k].creates = 1
  /\ Did(k, "no_job_id") \/ Did(k, "job_failed") \/ Did(k, "timeout_project")

ValidBackupsOf(k) ==
  {b \in srvBackups : b.rid = resources[k].id /\ b.status = StatusDone /\ b.size > 0}

C25_NoValidBackupLeft ==
  \A k \in Listed :
    (CreationFailed(k) /\ pc = "ended") => ValidBackupsOf(k) = {}

C25_OnlyRefusedOrLateBackupsLeft ==
  \A k \in Listed :
    (CreationFailed(k) /\ pc = "ended") =>
      /\ {b.id : b \in seen[k]} \subseteq calls[k].deleted
      /\ \A b \in seen[k] : ~b.locked => b \notin srvBackups
      /\ \A b \in ValidBackupsOf(k) :
           \/ b \in seen[k] /\ b.locked
           \/ b \notin seen[k] /\ Did(k, "timeout_project")

C25_Witness ==
  \E k \in Listed :
    /\ CreationFailed(k) /\ pc = "ended"
    /\ Did(k, "job_failed")
    /\ Cardinality(seen[k]) = 2
    /\ ValidBackupsOf(k) = {}

(***************************************************************************)
(* C26: at the end of every run the items value of the payload equals the  *)
(* number of resources whose backup was validated and transferred.         *)
(* Refuted: an exception ends backup() before main.py:197 stores the       *)
(* count, and the payload then carries 0.                                  *)
(***************************************************************************)
C26_ItemsCountTransferredResources ==
  pc = "ended" =>
    payload[1].items = Cardinality({k \in Listed : Did(k, "uploaded")})

(***************************************************************************)
(* C27: a call of the driver with a positive delay returns, after at most  *)
(* ceil(deadline / delay) calls of the probe, and after none when the      *)
(* deadline is 0 or negative.                                              *)
(***************************************************************************)
Ceil(a, b) == (a + b - 1) \div b

C27_DriverTerminates ==
  /\ [](pollStat.probes <= IF args.deadline <= 0 THEN 0
                           ELSE Ceil(args.deadline, args.delay))
  /\ <>(pc \in {"returned", "sleep"})

C27_Witness ==
  /\ pc = "sleep" /\ result = <<>>
  /\ args.deadline = MaxDeadline /\ args.delay = 1
  /\ pollStat.probes = Ceil(args.deadline, args.delay)
  /\ report.errors = 1

(***************************************************************************)
(* C28: a resource whose transfer failed, by a download timeout, an        *)
(* exception during the download, a non-success download response or an    *)
(* upload timeout, has raised the error count by exactly one.              *)
(* Refuted: the download timeout and the download exception are counted    *)
(* in get_backup_data and again in transfer_backup.                        *)
(***************************************************************************)
C28_FailedTransferCountsOneError ==
  \A k \in Listed :
    ( /\ Passed(k)
      /\ \/ Did(k, "download_stream_timeout") \/ Did(k, "download_raise")
         \/ Did(k, "download_not_ok") \/ Did(k, "timeout_upload") )
    => errsOf[k] = 1

(***************************************************************************)
(* C29: a library's candidate is checked once in a run; the check is       *)
(* entered from the cleanup that followed the poll's first sight of the    *)
(* backup, with no schedule left on the library; and a candidate rejected  *)
(* as unready is never checked again nor transferred, whatever becomes of  *)
(* it on the server.                                                       *)
(***************************************************************************)
C29_LibraryCandidateCheckedOnce ==
  [][\A k \in Listed : resources[k].type = "library" =>
       /\ (Did(k, "validate") /\ i' = k) => pc' # "lib_valid"
       /\ (i' = k /\ pc' = "lib_valid") =>
            /\ pc = "lib_cleanup" /\ result # <<>>
            /\ Did(k, "found") /\ "cleanup" \in ops'[k]
            /\ \A s \in srvSchedules' : s.target # resources[k].id
       /\ Did(k, "unready") =>
            /\ ~("valid" \in ops'[k]) /\ ~("transfer" \in ops'[k])
            /\ handed'[k] = <<>>
            /\ i' = k => backup_new' = <<>>]_vars

C29_Witness ==
  \E k \in Listed :
    LET new == {b \in srvBackups : /\ b.rid = resources[k].id
                                   /\ b.format = FormatAuto
                                   /\ b.time >= start_time * MsPerSec}
    IN  /\ resources[k].type = "library"
        /\ Did(k, "unready") /\ Passed(k) /\ pc = "ended"
        /\ new # {} /\ \A b \in new : backup_is_ready(b)
        /\ handed[k] = <<>> /\ calls[k].downloads = 0

====
